---- MODULE Spec2Model ----
(***************************************************************************)
(* Model of the ORBE arbiter backend, iteration v3.9 (src/server.js lines  *)
(* 394-883): the single-flight request queue (processQueue), the stateful  *)
(* swap orchestration (executeSwapLogic), the transfer helper              *)
(* (transferToken) with its balance check and nonce handling, the          *)
(* in-memory state store with its purge timer, and the ledger as seen      *)
(* through the RPC calls the code makes.                                   *)
(*                                                                         *)
(* Node.js runs one callback at a time: a handler runs until its next      *)
(* await on network I/O.  Each action below is one such run: an incoming   *)
(* request, a setImmediate callback, a purge timer, or the completion of   *)
(* one RPC call of the running task, followed by everything the code does  *)
(* synchronously after it (including the finally block of processQueue,    *)
(* which runs in a microtask before any other callback).                   *)
(*                                                                         *)
(* The code computes amounts in floating point.  Here an amount is an      *)
(* integer number of 1/Unit of a whole unit of the asset, fine enough for  *)
(* every product and quotient the code takes of the request amounts of the *)
(* model to be exact: nothing is rounded where the code does not round.    *)
(***************************************************************************)
EXTENDS Integers, Sequences, FiniteSets, TLC

VARIABLES
  requests,      \* per request id: the task object {type, data} made from it
  swapQueue,     \* server.js:520  queue of tasks, by request id
  isProcessing,  \* server.js:521  busy flag
  currentNonce,  \* server.js:522  local nonce counter, NoNonce = null
  swapState,     \* server.js:525  Map inviteCode -> state object (0 = absent)
  heap,          \* the state objects themselves, by identity
  timers,        \* pending purge timers per inviteCode (server.js:594)
  immediates,    \* scheduled setImmediate(processQueue) callbacks
  inflight,      \* per request: the frame of its running task
  responses,     \* per request: the HTTP responses written to res
  nextReq,       \* next request id
  chainCount,    \* per network: the signer's transaction count ("latest")
  txSeq,         \* number of transactions handed to the provider so far
  lastSend,      \* the latest transaction handed to the provider
  accepted,      \* per state object and step: submissions the ledger accepted
  usedNonces,    \* per network: nonces of the submissions the ledger accepted
  nonceReused,   \* the ledger accepted a nonce it had accepted before
  startOrder,    \* request ids in the order they were shifted
  nonceStale,    \* a submission failed and the nonce was not re-read since
  faults,        \* short balances, rejected sends and failed waits so far
  rpcFailures,   \* failed nonce queries so far
  purges,        \* purge timers that have fired so far
  calc           \* a fee calculation by itself: its request and its results

vars == <<requests, swapQueue, isProcessing, currentNonce, swapState, heap,
          timers, immediates, inflight, responses, nextReq, chainCount, txSeq,
          lastSend, accepted, usedNonces, nonceReused, startOrder, nonceStale,
          faults, rpcFailures, purges, calc>>

(***************************************************************************)
(* Bounds                                                                  *)
(***************************************************************************)
MaxRequests == 3
MaxSwaps == 2
MaxFaults == 1
MaxRpcFailures == 1
MaxPurges == 1
MaxMinorUnits == 3

Requests == 1..MaxRequests
Keys == {"K1", "K2"}

(***************************************************************************)
(* Program constants                                                       *)
(***************************************************************************)
NoNonce == -1
RPC_URLS == {"BSC", "Ethereum", "Solana"}
TREASURY_ADDRESS == "0xa433c78ebe278e4b84fec15fb235e86db889d52b"
WBNB == "0xbb4cdb9cbd36b01bd1cbaebf2de08d9173bc095c"
WETH == "0xc02aaa39b223fe8d0a0e5c4f27ead9083c756cc2"
WRAPPED_NATIVE_TOKENS == {WBNB, WETH}
ZeroAddress == "0x0000000000000000000000000000000000000000"
TokenA == "0x55d398326f99059ff775485246999027b3197955"

(***************************************************************************)
(* Strings the code stores in a transaction slot.  A slot value is a       *)
(* record: pre is the prefix the code tests with startsWith, arg the rest, *)
(* id the value of txSeq of a real transaction hash.                     *)
(***************************************************************************)
Null == [pre |-> "null", arg |-> "", id |-> 0]
TxHash(i) == [pre |-> "0x", arg |-> "", id |-> i]
SkippedZeroAmount == [pre |-> "0x_skipped", arg |-> "_zero_amount", id |-> 0]
SkippedLowBalance == [pre |-> "0x_skipped", arg |-> "_low_balance", id |-> 0]
SkippedLowBalanceError == [pre |-> "0x_skipped", arg |-> "_low_balance_error", id |-> 0]
ErrorString(code) == [pre |-> "0x_error", arg |-> code, id |-> 0]
AlreadyDoneOrSkipped == [pre |-> "0x_already_done_or_skipped", arg |-> "", id |-> 0]
FeesAccumulated == [pre |-> "0x_fees_accumulated", arg |-> "", id |-> 0]

Truthy(v) == v # Null
StartsWithError(v) == v.pre = "0x_error"
StartsWithSkipped(v) == v.pre = "0x_skipped"
StartsWith0x(v) == v.pre # "null"
StartsWith0x_(v) == v.pre \notin {"null", "0x"}
IsRealHash(v) == Truthy(v) /\ StartsWith0x(v) /\ ~StartsWith0x_(v)

(***************************************************************************)
(* Request bodies.  parseFloat(amount) of a request amount is the amount    *)
(* times Unit; feePercent is in percent, with NoFeePercent for an absent   *)
(* field and InvalidFeePercent for one parseFloat turns into NaN.          *)
(***************************************************************************)
Unit == 20000

NoFeePercent == -1
InvalidFeePercent == -2

WETHChecksum == "0xC02aaA39b223FE8D0A0e5C4F27eAD9083C756Cc2"

Payloads ==
  { [network |-> "BSC", buyerAmount |-> 100 * Unit, sellerAmount |-> 200 * Unit,
     feePercent |-> 10, buyerToken |-> TokenA, sellerToken |-> "BNB"],
    [network |-> "Ethereum", buyerAmount |-> 0, sellerAmount |-> 200 * Unit,
     feePercent |-> NoFeePercent, buyerToken |-> "ETH", sellerToken |-> WETHChecksum],
    [network |-> "Polygon", buyerAmount |-> 100 * Unit, sellerAmount |-> 200 * Unit,
     feePercent |-> 10, buyerToken |-> TokenA, sellerToken |-> "BNB"] }

NoData == [inviteCode |-> "", network |-> "", buyerAmount |-> 0, sellerAmount |-> 0,
           feePercent |-> NoFeePercent, buyerToken |-> "", sellerToken |-> ""]

SwapData(k, p) == [inviteCode |-> k, network |-> p.network,
                   buyerAmount |-> p.buyerAmount, sellerAmount |-> p.sellerAmount,
                   feePercent |-> p.feePercent, buyerToken |-> p.buyerToken,
                   sellerToken |-> p.sellerToken]

(***************************************************************************)
(* A state object of the store (server.js:592).                            *)
(***************************************************************************)
NewState == [buyerTx |-> Null, sellerTx |-> Null, feesTx |-> Null, completed |-> FALSE]

(***************************************************************************)
(* Errors thrown by the provider: the code field and whether any of the    *)
(* message fields contains "exceeds balance" or "insufficient funds".      *)
(***************************************************************************)
NoError == [code |-> "", lowMsg |-> FALSE]
SendErrors == { [code |-> "INSUFFICIENT_FUNDS", lowMsg |-> TRUE],
                [code |-> "NETWORK_ERROR", lowMsg |-> FALSE] }
WaitErrors == { [code |-> "CALL_EXCEPTION", lowMsg |-> FALSE],
                [code |-> "NETWORK_ERROR", lowMsg |-> FALSE] }

(***************************************************************************)
(* The frame of a running task: where it is suspended (pc), the request    *)
(* body, the state object it holds, and the locals of transferToken and of *)
(* the fee block that live across an await; threw records that a provider  *)
(* call of this task has thrown into the catch of transferToken.           *)
(***************************************************************************)
IdleFrame == [pc |-> "idle", data |-> NoData, state |-> 0, step |-> "",
              tokenAddress |-> "", amount |-> 0, tx |-> 0, nonce |-> 0,
              err |-> NoError, feeTxHash |-> Null, threw |-> FALSE]

Steps == {"buyer", "seller", "fee1", "fee2"}

NoSend == [req |-> 0, key |-> "", state |-> 0, step |-> "", network |-> "",
           nonce |-> 0, to |-> "", token |-> "", native |-> FALSE, value |-> 0,
           required |-> 0, available |-> 0, stale |-> FALSE]

InFlight == {r \in Requests : inflight[r].pc # "idle"}

World == [requests |-> requests, swapQueue |-> swapQueue,
          isProcessing |-> isProcessing, currentNonce |-> currentNonce,
          swapState |-> swapState, heap |-> heap, timers |-> timers,
          immediates |-> immediates, inflight |-> inflight, responses |-> responses,
          chainCount |-> chainCount, txSeq |-> txSeq, lastSend |-> lastSend,
          accepted |-> accepted, usedNonces |-> usedNonces,
          nonceReused |-> nonceReused, startOrder |-> startOrder,
          nonceStale |-> nonceStale, calc |-> calc]

Becomes(W) ==
  /\ requests' = W.requests
  /\ swapQueue' = W.swapQueue
  /\ isProcessing' = W.isProcessing
  /\ currentNonce' = W.currentNonce
  /\ swapState' = W.swapState
  /\ heap' = W.heap
  /\ timers' = W.timers
  /\ immediates' = W.immediates
  /\ inflight' = W.inflight
  /\ responses' = W.responses
  /\ chainCount' = W.chainCount
  /\ txSeq' = W.txSeq
  /\ lastSend' = W.lastSend
  /\ accepted' = W.accepted
  /\ usedNonces' = W.usedNonces
  /\ nonceReused' = W.nonceReused
  /\ startOrder' = W.startOrder
  /\ nonceStale' = W.nonceStale
  /\ calc' = W.calc

\* a mutant: the finally block clears the flag and schedules nothing
FinallyNoSetImmediate(W, r) ==
  [W EXCEPT !.isProcessing = FALSE,
            !.inflight[r] = IdleFrame]

(***************************************************************************)
(* processQueue, finally block (server.js:552-558).                        *)
(***************************************************************************)
Finally(W, r) ==
  [W EXCEPT !.isProcessing = FALSE,
            !.immediates = IF Len(W.swapQueue) > 0 THEN @ + 1 ELSE @,
            !.inflight[r] = IdleFrame]

\* res.json(...) / res.status(401).json(...)
Json(status, success, message, code, transactions) ==
  [status |-> status, success |-> success, message |-> message, code |-> code,
   transactions |-> transactions]

NoTransactions == <<Null, Null, Null>>

\* a mutant: the body is written twice
RespondTwice(W, r, body) == [W EXCEPT !.responses[r] = Append(Append(@, body), body)]

Respond(W, r, body) == [W EXCEPT !.responses[r] = Append(@, body)]

\* a mutant: the catch block answers with status 500
SwapCatch500(W, r) ==
  Finally(Respond(W, r, Json(500, FALSE, "", "", NoTransactions)), r)

(***************************************************************************)
(* executeSwapLogic, catch block (server.js:825-834).                      *)
(***************************************************************************)
SwapCatch(W, r) ==
  Finally(Respond(W, r, Json(200, FALSE, "Swap failed (stopped retry loop)",
                              "SWAP_ERROR_STOP_RETRY", NoTransactions)), r)

(***************************************************************************)
(* Mark complete and answer (server.js:810-823).                           *)
(***************************************************************************)
Complete(W, r) ==
  LET f == W.inflight[r]
      W1 == [W EXCEPT !.heap[f.state].completed = TRUE,
                      !.swapState[f.data.inviteCode] = f.state]
      s == W1.heap[f.state]
  IN Finally(Respond(W1, r, Json(200, TRUE, "Swap executed successfully", "",
                                  <<s.buyerTx, s.sellerTx, s.feesTx>>)), r)

(***************************************************************************)
(* Fee calculation (server.js:752-761).  parseFloat(feePercent) || 10.0:   *)
(* undefined and an unparsable string give NaN, and NaN and 0 are falsy.   *)
(* Percent / 2 / 100 of an amount is amount * percent / 200, which is      *)
(* exact for every request amount that is a multiple of Unit / 100.        *)
(***************************************************************************)
finalFeePercent(feePercent) ==
  IF feePercent \in {NoFeePercent, InvalidFeePercent, 0} THEN 10 ELSE feePercent

buyerFeeAmt(d) == (d.sellerAmount * finalFeePercent(d.feePercent)) \div 200
buyerNet(d) == d.sellerAmount - buyerFeeAmt(d)
sellerFeeAmt(d) == (d.buyerAmount * finalFeePercent(d.feePercent)) \div 200
sellerNet(d) == d.buyerAmount - sellerFeeAmt(d)

\* fee * treasuryShare, treasuryShare = 0.70 (server.js:791,795,801)
amountToTreasury(fee) == (fee * 70) \div 100

(***************************************************************************)
(* transferToken, first line (server.js:649): a missing, zero or negative  *)
(* amount returns "0x_skipped_zero_amount" at once.                        *)
(***************************************************************************)
\* a mutant: transferToken without its first line
IsZeroAmountNever(amount) == FALSE

IsZeroAmount(amount) == amount <= 0

\* transferToken suspends at getAvailableBalance (server.js:652)
AwaitBalance(W, r, step, tokenAddress, amount) ==
  [W EXCEPT !.inflight[r].pc = "balance",
            !.inflight[r].step = step,
            !.inflight[r].tokenAddress = tokenAddress,
            !.inflight[r].amount = amount,
            !.inflight[r].tx = 0,
            !.inflight[r].err = NoError]

(***************************************************************************)
(* 3. Fees distribution (server.js:789-808), from its end to its start.    *)
(***************************************************************************)
FeesDone(W, r) ==
  LET f == W.inflight[r]
  IN Complete([W EXCEPT !.heap[f.state].feesTx = f.feeTxHash,
                        !.swapState[f.data.inviteCode] = f.state], r)

\* a mutant: the result of fee 2 is recorded whatever it is
AfterFee2NoFilter(W, r, tx) ==
  FeesDone([W EXCEPT !.inflight[r].feeTxHash = tx], r)

AfterFee2(W, r, tx) ==
  FeesDone([W EXCEPT !.inflight[r].feeTxHash = IF IsRealHash(tx) THEN tx ELSE @], r)

StartFee2(W, r) ==
  LET d == W.inflight[r].data
      amt == amountToTreasury(sellerFeeAmt(d))
  IN IF sellerFeeAmt(d) > 0
     THEN IF IsZeroAmount(amt) THEN AfterFee2(W, r, SkippedZeroAmount)
          ELSE AwaitBalance(W, r, "fee2", d.buyerToken, amt)
     ELSE FeesDone(W, r)

AfterFee1(W, r, tx) ==
  StartFee2([W EXCEPT !.inflight[r].feeTxHash = IF IsRealHash(tx) THEN tx ELSE @], r)

StartFees(W, r) ==
  LET f == W.inflight[r]
      d == f.data
      amt == amountToTreasury(buyerFeeAmt(d))
      W1 == [W EXCEPT !.inflight[r].feeTxHash = FeesAccumulated]
  IN IF ~Truthy(W.heap[f.state].feesTx)
     THEN IF buyerFeeAmt(d) > 0
          THEN IF IsZeroAmount(amt) THEN AfterFee1(W1, r, SkippedZeroAmount)
               ELSE AwaitBalance(W1, r, "fee1", d.sellerToken, amt)
          ELSE StartFee2(W1, r)
     ELSE Complete(W, r)

(***************************************************************************)
(* 2. Transfer to seller (server.js:778-787).                              *)
(***************************************************************************)
AfterSeller(W, r, result) ==
  LET f == W.inflight[r]
  IN StartFees([W EXCEPT !.heap[f.state].sellerTx =
                            IF Truthy(result) /\ StartsWithSkipped(result)
                            THEN AlreadyDoneOrSkipped ELSE result,
                         !.swapState[f.data.inviteCode] = f.state], r)

StartSeller(W, r) ==
  LET f == W.inflight[r]
      d == f.data
      sellerTx == W.heap[f.state].sellerTx
  IN IF ~Truthy(sellerTx) \/ StartsWithError(sellerTx)
     THEN IF IsZeroAmount(sellerNet(d)) THEN AfterSeller(W, r, SkippedZeroAmount)
          ELSE AwaitBalance(W, r, "seller", d.buyerToken, sellerNet(d))
     ELSE StartFees(W, r)

(***************************************************************************)
(* 1. Transfer to buyer (server.js:767-776).                               *)
(***************************************************************************)
AfterBuyer(W, r, result) ==
  LET f == W.inflight[r]
  IN StartSeller([W EXCEPT !.heap[f.state].buyerTx =
                              IF Truthy(result) /\ StartsWithSkipped(result)
                              THEN AlreadyDoneOrSkipped ELSE result,
                           !.swapState[f.data.inviteCode] = f.state], r)

StartBuyer(W, r) ==
  LET f == W.inflight[r]
      d == f.data
      buyerTx == W.heap[f.state].buyerTx
  IN IF ~Truthy(buyerTx) \/ StartsWithError(buyerTx)
     THEN IF IsZeroAmount(buyerNet(d)) THEN AfterBuyer(W, r, SkippedZeroAmount)
          ELSE AwaitBalance(W, r, "buyer", d.sellerToken, buyerNet(d))
     ELSE StartSeller(W, r)

\* transferToken returns `result` to the step that called it
TransferReturn(W, r, result) ==
  CASE W.inflight[r].step = "buyer" -> AfterBuyer(W, r, result)
    [] W.inflight[r].step = "seller" -> AfterSeller(W, r, result)
    [] W.inflight[r].step = "fee1" -> AfterFee1(W, r, result)
    [] W.inflight[r].step = "fee2" -> AfterFee2(W, r, result)

(***************************************************************************)
(* Asset classification.  toLowerCase and length of the asset identifiers  *)
(* the model uses.                                                         *)
(***************************************************************************)
WBNBChecksum == "0xbb4CdB9CBd36B01bD1cBaEBF2De08d9173bc095c"

ToLowerCase(t) ==
  CASE t = WBNBChecksum -> WBNB
    [] t = WETHChecksum -> WETH
    [] OTHER -> t
StrLength(t) == IF t \in {"BNB", "ETH"} THEN 3 ELSE 42

\* getAvailableBalance (server.js:628-629)
IsNativeForBalance(t) ==
  \/ ToLowerCase(t) \in WRAPPED_NATIVE_TOKENS
  \/ t = "BNB" \/ t = "ETH" \/ StrLength(t) < 10

\* a mutant: the wrapped-native lookup without toLowerCase()
IsNativeExactCase(t) ==
  \/ t \in WRAPPED_NATIVE_TOKENS
  \/ t = "BNB" \/ t = "ETH" \/ StrLength(t) < 10
  \/ t = ZeroAddress

\* transferToken (server.js:674-679)
IsNativeForSend(t) ==
  \/ ToLowerCase(t) \in WRAPPED_NATIVE_TOKENS
  \/ t = "BNB" \/ t = "ETH" \/ StrLength(t) < 10
  \/ t = ZeroAddress

\* the variables of one fee calculation (server.js:752-761, 789-790, 799-800)
\* and the two isNative of the transfer of sellerToken (server.js:629, 674-679)
NoFees == [finalFeePercent |-> 0, buyerFeeAmt |-> 0, buyerNet |-> 0,
           sellerFeeAmt |-> 0, sellerNet |-> 0, treasury1 |-> 0, treasury2 |-> 0,
           balanceIsNative |-> FALSE, sendIsNative |-> FALSE, done |-> FALSE]

FeeCalculation(d) ==
  [finalFeePercent |-> finalFeePercent(d.feePercent),
   buyerFeeAmt |-> buyerFeeAmt(d), buyerNet |-> buyerNet(d),
   sellerFeeAmt |-> sellerFeeAmt(d), sellerNet |-> sellerNet(d),
   treasury1 |-> amountToTreasury(buyerFeeAmt(d)),
   treasury2 |-> amountToTreasury(sellerFeeAmt(d)),
   balanceIsNative |-> IsNativeForBalance(d.sellerToken),
   sendIsNative |-> IsNativeForSend(d.sellerToken),
   done |-> TRUE]

NoCalc == [data |-> NoData, fees |-> NoFees]

Max(a, b) == IF a >= b THEN a ELSE b

\* gasBuffer = 0.001 (server.js:686): Unit / 1000
GasBuffer == 20

\* the smallest amount of an asset: 10^-decimals.  The native coin has 18
\* decimals, finer than any amount of the model; the token contract of the
\* model answers decimals() with 1 (server.js:702-703)
MinorUnit(native) == IF native THEN 1 ELSE Unit \div 10

\* formatAmount (server.js:614-622) followed by parseUnits: the digits beyond
\* the decimals of the asset are cut off
formatAmount(amount, minorUnit) == (amount \div minorUnit) * minorUnit

Recipient(step) ==
  CASE step = "buyer" -> "buyerAddress"
    [] step = "seller" -> "sellerAddress"
    [] OTHER -> TREASURY_ADDRESS

(***************************************************************************)
(* transferToken from the balance it read to the submission                *)
(* (server.js:652-694 and 699-708).  available <= 0.000001 is             *)
(* available * 50 <= 1 in 1/Unit.  The nonce is taken and incremented      *)
(* when the transaction is handed to the provider.                         *)
(***************************************************************************)
TransferAfterBalance(W, r, available) ==
  LET f == W.inflight[r]
      required == f.amount
      finalAmount == IF available < required THEN (available * 99) \div 100 ELSE f.amount
      native == IsNativeForSend(f.tokenAddress)
      formattedAmount == formatAmount(finalAmount, MinorUnit(native))
      value == IF native THEN Max(0, formattedAmount - GasBuffer) ELSE formattedAmount
      entry == [req |-> r, key |-> f.data.inviteCode, state |-> f.state,
                step |-> f.step, network |-> f.data.network,
                nonce |-> W.currentNonce, to |-> Recipient(f.step),
                token |-> f.tokenAddress, native |-> native, value |-> value, required |-> required,
                available |-> available, stale |-> W.nonceStale]
  IN IF available < required /\ available * 50 <= 1
     THEN TransferReturn(W, r, SkippedLowBalance)
     ELSE [W EXCEPT !.currentNonce = @ + 1,
                    !.txSeq = @ + 1,
                    !.lastSend = entry,
                    !.inflight[r].pc = "send",
                    !.inflight[r].tx = W.txSeq + 1,
                    !.inflight[r].nonce = W.currentNonce]

\* sendTransaction / contract.transfer resolved (server.js:690-695, 708-709)
TransferAfterSend(W, r) ==
  LET f == W.inflight[r]
      net == f.data.network
  IN [W EXCEPT !.accepted[f.state][f.step] = @ + 1,
               !.usedNonces[net] = @ \cup {f.nonce},
               !.nonceReused = @ \/ f.nonce \in W.usedNonces[net],
               !.inflight[r].pc = "wait"]

\* sendTransaction / contract.transfer threw: into the catch (server.js:713)
TransferSendFailed(W, r, err) ==
  [W EXCEPT !.nonceStale = TRUE,
            !.inflight[r].pc = "resync",
            !.inflight[r].err = err,
            !.inflight[r].threw = TRUE]

\* tx.wait(1) resolved: return tx.hash (server.js:696-697, 710-711)
TransferAfterWait(W, r) ==
  LET f == W.inflight[r]
  IN TransferReturn([W EXCEPT !.chainCount[f.data.network] = @ + 1], r, TxHash(f.tx))

\* tx.wait(1) threw: into the catch; the transaction may have been mined
TransferWaitFailed(W, r, err, mined) ==
  [W EXCEPT !.chainCount[W.inflight[r].data.network] = IF mined THEN @ + 1 ELSE @,
            !.nonceStale = TRUE,
            !.inflight[r].pc = "resync",
            !.inflight[r].err = err,
            !.inflight[r].threw = TRUE]

\* isLowBalance (server.js:717-734)
isLowBalance(err) ==
  \/ err.lowMsg
  \/ err.code = "INSUFFICIENT_FUNDS"
  \/ err.code = "CALL_EXCEPTION"

(***************************************************************************)
(* transferToken, catch block after the nonce query (server.js:736-744):   *)
(* try { currentNonce = await getTransactionCount } catch(e) {} and the    *)
(* string returned.  ok = the nonce query succeeded.                       *)
(***************************************************************************)
TransferCatch(W, r, ok) ==
  LET f == W.inflight[r]
      W1 == [W EXCEPT !.currentNonce = IF ok THEN W.chainCount[f.data.network] ELSE @,
                      !.nonceStale = IF ok THEN FALSE ELSE @]
  IN TransferReturn(W1, r,
       IF isLowBalance(f.err) THEN SkippedLowBalanceError
       ELSE ErrorString(IF f.err.code # "" THEN f.err.code ELSE "failed"))

\* a mutant: every network identifier is taken as configured
IsSupportedAlways(network) == TRUE

\* const rpcUrl = RPC_URLS[network]; if (!rpcUrl) throw (server.js:600-601)
IsSupported(network) == network \in RPC_URLS

\* a mutant: a stored state is never found
HasStateNever(W, obj) == FALSE

\* if (!state) (server.js:591), negated
HasState(W, obj) == obj # 0

\* a mutant: the completed flag is never honoured
IsCompletedNever(W, obj) == FALSE

\* if (state && state.completed) (server.js:577)
IsCompleted(W, obj) == obj # 0 /\ W.heap[obj].completed

\* a mutant: no replay and no look at what the state records before the
\* buyer transfer
executeSwapLogicStateless(W, r, data) ==
  LET obj == W.swapState[data.inviteCode]
      state == IF obj # 0 THEN obj ELSE r
      W1 == IF obj # 0 THEN W
            ELSE [W EXCEPT !.heap[r] = NewState,
                           !.swapState[data.inviteCode] = r,
                           !.timers[data.inviteCode] = @ + 1]
      W2 == [W1 EXCEPT !.inflight[r] = [IdleFrame EXCEPT !.pc = "start",
                                                        !.data = data,
                                                        !.state = state]]
  IN IF ~IsSupported(data.network) THEN SwapCatch(W2, r)
     ELSE IF W2.currentNonce = NoNonce
          THEN [W2 EXCEPT !.inflight[r].pc = "nonceSync"]
          ELSE AwaitBalance(W2, r, "buyer", data.sellerToken, buyerNet(data))

(***************************************************************************)
(* executeSwapLogic from its start to its first await (server.js:565-611). *)
(***************************************************************************)
executeSwapLogic(W, r, data) ==
  LET obj == W.swapState[data.inviteCode]
      s == W.heap[obj]
      state == IF HasState(W, obj) THEN obj ELSE r
      W1 == IF HasState(W, obj) THEN W
            ELSE [W EXCEPT !.heap[r] = NewState,
                           !.swapState[data.inviteCode] = r,
                           !.timers[data.inviteCode] = @ + 1]
      W2 == [W1 EXCEPT !.inflight[r] = [IdleFrame EXCEPT !.pc = "start",
                                                        !.data = data,
                                                        !.state = state]]
  IN IF IsCompleted(W, obj)
     THEN Finally(Respond(W, r, Json(200, TRUE, "Swap already completed", "",
                                     <<s.buyerTx, s.sellerTx, s.feesTx>>)), r)
     ELSE IF ~IsSupported(data.network) THEN SwapCatch(W2, r)
     ELSE IF W2.currentNonce = NoNonce
          THEN [W2 EXCEPT !.inflight[r].pc = "nonceSync"]
          ELSE StartBuyer(W2, r)

\* the initial nonce query returned (server.js:607) or threw (to line 825)
AfterNonceSync(W, r, ok) ==
  IF ok
  THEN StartBuyer([W EXCEPT !.currentNonce = W.chainCount[W.inflight[r].data.network],
                            !.nonceStale = FALSE], r)
  ELSE SwapCatch(W, r)

(***************************************************************************)
(* executeRefundLogic (server.js:841-860): answers at once, both ways.     *)
(***************************************************************************)
executeRefundLogic(W, r, data) ==
  Finally(Respond(W, r, IF IsSupported(data.network)
                        THEN Json(200, TRUE, "Refund request received", "", NoTransactions)
                        ELSE Json(200, FALSE, "", "", NoTransactions)), r)

\* a mutant: the busy flag is not consulted
processQueueNoGuard(W) ==
  IF Len(W.swapQueue) = 0 THEN W
  ELSE LET id == Head(W.swapQueue)
           task == W.requests[id]
           W1 == [W EXCEPT !.isProcessing = TRUE,
                           !.swapQueue = Tail(@),
                           !.startOrder = Append(@, id)]
       IN IF task.type = "swap" THEN executeSwapLogic(W1, id, task.data)
          ELSE executeRefundLogic(W1, id, task.data)

\* a mutant: the busy flag is not set
processQueueNoSet(W) ==
  IF W.isProcessing \/ Len(W.swapQueue) = 0 THEN W
  ELSE LET id == Head(W.swapQueue)
           task == W.requests[id]
           W1 == [W EXCEPT !.swapQueue = Tail(@),
                           !.startOrder = Append(@, id)]
       IN IF task.type = "swap" THEN executeSwapLogic(W1, id, task.data)
          ELSE executeRefundLogic(W1, id, task.data)

(***************************************************************************)
(* processQueue (server.js:527-540) up to the task's first await.          *)
(***************************************************************************)
processQueue(W) ==
  IF W.isProcessing \/ Len(W.swapQueue) = 0 THEN W
  ELSE LET id == Head(W.swapQueue)
           task == W.requests[id]
           W1 == [W EXCEPT !.isProcessing = TRUE,
                           !.swapQueue = Tail(@),
                           !.startOrder = Append(@, id)]
       IN IF task.type = "swap" THEN executeSwapLogic(W1, id, task.data)
          ELSE executeRefundLogic(W1, id, task.data)

\* a mutant: the task is put at the front of the queue (unshift for push)
EnqueueFront(W, r, type, data) ==
  processQueue([W EXCEPT !.requests[r] = [type |-> type, data |-> data],
                         !.swapQueue = <<r>> \o @])

\* app.post handlers after authenticate (server.js:870-878)
Enqueue(W, r, type, data) ==
  processQueue([W EXCEPT !.requests[r] = [type |-> type, data |-> data],
                         !.swapQueue = Append(@, r)])

\* a mutant: authenticate answers 401 and calls next() all the same
UnauthorizedNext(W, r) ==
  processQueue(
    Respond([W EXCEPT !.requests[r] = [type |-> "unauthorized", data |-> NoData],
                      !.swapQueue = Append(@, r)], r,
            Json(401, FALSE, "", "", NoTransactions)))

\* authenticate, failing branch (server.js:508-511)
Unauthorized(W, r) ==
  Respond([W EXCEPT !.requests[r] = [type |-> "unauthorized", data |-> NoData]], r,
          Json(401, FALSE, "", "", NoTransactions))

(***************************************************************************)
(* Actions.  The ledger may report a short balance, reject a send or fail   *)
(* a confirmation wait (at most MaxFaults times), a nonce query may fail    *)
(* (at most MaxRpcFailures times), and at most MaxPurges purge timers fire  *)
(* within the run.                                                          *)
(***************************************************************************)
Init ==
  /\ requests = [r \in Requests |-> [type |-> "none", data |-> NoData]]
  /\ swapQueue = <<>>
  /\ isProcessing = FALSE
  /\ currentNonce = NoNonce
  /\ swapState = [k \in Keys |-> 0]
  /\ heap = [o \in Requests |-> NewState]
  /\ timers = [k \in Keys |-> 0]
  /\ immediates = 0
  /\ inflight = [r \in Requests |-> IdleFrame]
  /\ responses = [r \in Requests |-> <<>>]
  /\ nextReq = 1
  /\ chainCount = [n \in RPC_URLS |-> 0]
  /\ txSeq = 0
  /\ lastSend = NoSend
  /\ accepted = [o \in Requests |-> [st \in Steps |-> 0]]
  /\ usedNonces = [n \in RPC_URLS |-> {}]
  /\ nonceReused = FALSE
  /\ startOrder = <<>>
  /\ nonceStale = FALSE
  /\ faults = 0
  /\ rpcFailures = 0
  /\ purges = 0
  /\ calc = NoCalc

Fault(failed) ==
  /\ failed => faults < MaxFaults
  /\ faults' = IF failed THEN faults + 1 ELSE faults
  /\ UNCHANGED <<rpcFailures, purges>>

RpcFailure(failed) ==
  /\ failed => rpcFailures < MaxRpcFailures
  /\ rpcFailures' = IF failed THEN rpcFailures + 1 ELSE rpcFailures
  /\ UNCHANGED <<faults, purges>>

NoFailure == UNCHANGED <<faults, rpcFailures, purges>>

\* POST /api/arbiter/execute-swap with the right bearer token
SwapRequest ==
  /\ nextReq <= MaxRequests
  /\ Cardinality({r \in Requests : requests[r].type = "swap"}) < MaxSwaps
  /\ \E k \in Keys, p \in Payloads :
       Becomes(Enqueue(World, nextReq, "swap", SwapData(k, p)))
  /\ nextReq' = nextReq + 1
  /\ NoFailure

\* POST /api/arbiter/refund with the right bearer token
RefundRequest ==
  /\ nextReq <= MaxRequests
  /\ Becomes(Enqueue(World, nextReq, "refund", [NoData EXCEPT !.network = "BSC"]))
  /\ nextReq' = nextReq + 1
  /\ NoFailure

\* either endpoint without the right bearer token
UnauthorizedRequest ==
  /\ nextReq <= MaxRequests
  /\ Becomes(Unauthorized(World, nextReq))
  /\ nextReq' = nextReq + 1
  /\ NoFailure

\* a setImmediate(processQueue) callback runs (server.js:556)
Immediate ==
  /\ immediates > 0
  /\ Becomes(processQueue([World EXCEPT !.immediates = @ - 1]))
  /\ NoFailure
  /\ UNCHANGED nextReq

\* the purge timer of a key fires (server.js:594-596)
PurgeTimer(k) ==
  /\ timers[k] > 0
  /\ purges < MaxPurges
  /\ purges' = purges + 1
  /\ timers' = [timers EXCEPT ![k] = @ - 1]
  /\ swapState' = [swapState EXCEPT ![k] = 0]
  /\ UNCHANGED <<requests, swapQueue, isProcessing, currentNonce, heap, immediates,
                 inflight, responses, nextReq, chainCount, txSeq, lastSend,
                 accepted, usedNonces, nonceReused, startOrder, nonceStale, faults,
                 rpcFailures, calc>>

\* provider.getTransactionCount at the start of a task resolves or throws
NonceSyncDone(r) ==
  /\ inflight[r].pc = "nonceSync"
  /\ \E ok \in BOOLEAN :
       /\ RpcFailure(~ok)
       /\ Becomes(AfterNonceSync(World, r, ok))
  /\ UNCHANGED nextReq

\* the balance to compare with the amount: what the chain reports (enough,
\* half of it, or less than the gas buffer), or 0 when the query failed
\* (server.js:642-645)
Balances(required) == {0, GasBuffer \div 2, required \div 2, required}

BalanceDone(r) ==
  /\ inflight[r].pc = "balance"
  /\ \E available \in Balances(inflight[r].amount) :
       /\ Fault(available < inflight[r].amount)
       /\ Becomes(TransferAfterBalance(World, r, available))
  /\ UNCHANGED nextReq

\* the ledger accepts a transaction whose nonce is not already used
SendAccepted(r) ==
  /\ inflight[r].pc = "send"
  /\ inflight[r].nonce >= chainCount[inflight[r].data.network]
  /\ Becomes(TransferAfterSend(World, r))
  /\ NoFailure
  /\ UNCHANGED nextReq

SendRejected(r) ==
  /\ inflight[r].pc = "send"
  /\ Fault(TRUE)
  /\ \E err \in SendErrors : Becomes(TransferSendFailed(World, r, err))
  /\ UNCHANGED nextReq

\* one confirmation: the transaction is the next one of the signer
WaitConfirmed(r) ==
  /\ inflight[r].pc = "wait"
  /\ inflight[r].nonce = chainCount[inflight[r].data.network]
  /\ Becomes(TransferAfterWait(World, r))
  /\ NoFailure
  /\ UNCHANGED nextReq

\* tx.wait throws: reverted (mined), or the wait itself failed (mined or not)
WaitFailed(r) ==
  /\ inflight[r].pc = "wait"
  /\ Fault(TRUE)
  /\ \E err \in WaitErrors, mined \in BOOLEAN :
       /\ mined => inflight[r].nonce = chainCount[inflight[r].data.network]
       /\ err.code = "CALL_EXCEPTION" => mined
       /\ Becomes(TransferWaitFailed(World, r, err, mined))
  /\ UNCHANGED nextReq

\* the nonce query of the catch block resolves or throws
ResyncDone(r) ==
  /\ inflight[r].pc = "resync"
  /\ \E ok \in BOOLEAN :
       /\ RpcFailure(~ok)
       /\ Becomes(TransferCatch(World, r, ok))
  /\ UNCHANGED nextReq

Next ==
  \/ SwapRequest
  \/ RefundRequest
  \/ UnauthorizedRequest
  \/ Immediate
  \/ \E k \in Keys : PurgeTimer(k)
  \/ \E r \in Requests : NonceSyncDone(r)
  \/ \E r \in Requests : BalanceDone(r)
  \/ \E r \in Requests : SendAccepted(r)
  \/ \E r \in Requests : SendRejected(r)
  \/ \E r \in Requests : WaitConfirmed(r)
  \/ \E r \in Requests : WaitFailed(r)
  \/ \E r \in Requests : ResyncDone(r)

Spec == Init /\ [][Next]_vars

(***************************************************************************)
(* The fee calculation by itself (server.js:752-761): the amounts of the    *)
(* request are whole numbers of minor units of the token, up to             *)
(* MaxMinorUnits of them, or the 100 and 200 units of the requests above;   *)
(* the fee rate is absent, unparsable, or a number of percent; the asset is *)
(* a symbol, a wrapped-native address in either case, the zero address or   *)
(* another contract address.                                                *)
(***************************************************************************)
AssetIds == {"BNB", "ETH", WBNB, WBNBChecksum, WETH, WETHChecksum, ZeroAddress, TokenA}

FeeAmounts ==
  {m * MinorUnit(FALSE) : m \in 0..MaxMinorUnits} \cup {100 * Unit, 200 * Unit}

FeePercents == {NoFeePercent, InvalidFeePercent, 0, 5, 10}

FeeInit ==
  /\ \E a \in FeeAmounts, b \in FeeAmounts, f \in FeePercents, t \in AssetIds :
       calc = [data |-> [NoData EXCEPT !.network = "BSC", !.buyerAmount = b,
                                       !.sellerAmount = a, !.feePercent = f,
                                       !.sellerToken = t],
               fees |-> NoFees]
  /\ requests = [r \in Requests |-> [type |-> "none", data |-> NoData]]
  /\ swapQueue = <<>>
  /\ isProcessing = FALSE
  /\ currentNonce = NoNonce
  /\ swapState = [k \in Keys |-> 0]
  /\ heap = [o \in Requests |-> NewState]
  /\ timers = [k \in Keys |-> 0]
  /\ immediates = 0
  /\ inflight = [r \in Requests |-> IdleFrame]
  /\ responses = [r \in Requests |-> <<>>]
  /\ nextReq = 1
  /\ chainCount = [n \in RPC_URLS |-> 0]
  /\ txSeq = 0
  /\ lastSend = NoSend
  /\ accepted = [o \in Requests |-> [st \in Steps |-> 0]]
  /\ usedNonces = [n \in RPC_URLS |-> {}]
  /\ nonceReused = FALSE
  /\ startOrder = <<>>
  /\ nonceStale = FALSE
  /\ faults = 0
  /\ rpcFailures = 0
  /\ purges = 0

CalculateFees ==
  /\ ~calc.fees.done
  /\ calc' = [calc EXCEPT !.fees = FeeCalculation(calc.data)]
  /\ UNCHANGED <<requests, swapQueue, isProcessing, currentNonce, swapState, heap,
                 timers, immediates, inflight, responses, nextReq, chainCount,
                 txSeq, lastSend, accepted, usedNonces, nonceReused, startOrder,
                 nonceStale, faults, rpcFailures, purges>>

FeeSpec == FeeInit /\ [][CalculateFees]_vars

(***************************************************************************)
(* What the claims speak of                                                *)
(***************************************************************************)
Started == {startOrder[i] : i \in 1..Len(startOrder)}
Ended == {r \in Started : inflight[r].pc = "idle"}
Enqueued == {r \in Requests : requests[r].type \in {"swap", "refund"}}
Primary == {"buyer", "seller"}

\* request r is shifted off the queue in this step
Starts(r) == r \notin Started /\ r \in Started'

\* a transaction is handed to the provider in this step
Submits == txSeq' = txSeq + 1

RECURSIVE SumAccepted(_, _, _)
SumAccepted(k, st, n) ==
  IF n = 0 THEN 0
  ELSE SumAccepted(k, st, n - 1)
       + (IF requests[n].type = "swap" /\ requests[n].data.inviteCode = k
          THEN accepted[n][st] ELSE 0)

\* submissions of step st the ledger accepted for key k, over all its states
AcceptedForKey(k, st) == SumAccepted(k, st, MaxRequests)

(***************************************************************************)
(* C1  Replay.  When a swap request is taken off the queue and the store   *)
(* holds a completed state for its key, the request is answered at once    *)
(* with the three stored identifiers, the same ones the completing request *)
(* was answered with; nothing is submitted, and the nonce counter, the     *)
(* state objects and the ledger are left as they were.                     *)
(***************************************************************************)
ReplayResponse(s) ==
  Json(200, TRUE, "Swap already completed", "", <<s.buyerTx, s.sellerTx, s.feesTx>>)

C1_Replay ==
  [][\A r \in Requests :
       (/\ Starts(r)
        /\ requests'[r].type = "swap"
        /\ swapState[requests'[r].data.inviteCode] # 0
        /\ heap[swapState[requests'[r].data.inviteCode]].completed)
       => LET s == heap[swapState[requests'[r].data.inviteCode]]
          IN /\ responses'[r] = <<ReplayResponse(s)>>
             /\ \E r0 \in Requests \ {r} :
                  /\ Len(responses[r0]) = 1
                  /\ responses[r0][1].success
                  /\ responses[r0][1].transactions = <<s.buyerTx, s.sellerTx, s.feesTx>>
             /\ inflight'[r].pc = "idle"
             /\ UNCHANGED <<txSeq, currentNonce, heap, chainCount, accepted, swapState>>]_vars

C1_Witness ==
  \E r \in Requests :
    /\ Len(responses[r]) = 1
    /\ responses[r][1].message = "Swap already completed"
    /\ IsRealHash(responses[r][1].transactions[1])

(***************************************************************************)
(* C2  At most once.  As claimed: for every key, over all requests and     *)
(* purge timer firings, the ledger accepts the buyer transfer at most once *)
(* and the seller transfer at most once.                                   *)
(***************************************************************************)
C2_AtMostOncePerKey ==
  \A k \in Keys, st \in Primary : AcceptedForKey(k, st) <= 1

(***************************************************************************)
(* C2, amended.  For every state object of the store (what a key names     *)
(* from the request that creates it until the purge timer removes it), the *)
(* ledger accepts the buyer transfer at most once and the seller transfer  *)
(* at most once, however often the request is resubmitted.                 *)
(***************************************************************************)
C2_AtMostOncePerState ==
  \A o \in Requests, st \in Primary : accepted[o][st] <= 1

C2_Witness ==
  \E o \in Requests, r \in Requests :
    /\ r # o
    /\ accepted[o]["buyer"] = 1
    /\ accepted[o]["seller"] = 1
    /\ requests[r].type = "swap"
    /\ requests[r].data.inviteCode = requests[o].data.inviteCode
    /\ r \in Ended

(***************************************************************************)
(* C3  Single flight.  At most one task is in flight in every reachable    *)
(* state, the busy flag is set while one is, and the nonce counter changes *)
(* only in a step of the one task in flight.                               *)
(***************************************************************************)
C3_SingleFlight ==
  /\ [](Cardinality(InFlight) <= 1 /\ (InFlight # {} => isProcessing))
  /\ [][currentNonce' # currentNonce =>
          /\ Cardinality(InFlight) = 1
          /\ InFlight' \subseteq InFlight]_vars

C3_Witness ==
  /\ Cardinality(InFlight) = 1
  /\ Len(swapQueue) >= 1
  /\ immediates >= 1
  /\ currentNonce > 0

(***************************************************************************)
(* C4  Cross-key isolation.  Whenever a task hands a transaction to the    *)
(* provider, every other task that was started has ended and has been      *)
(* answered: the submissions of two tasks never interleave.                *)
(***************************************************************************)
C4_NoInterleaving ==
  [][Submits =>
       \A r \in Started \ {lastSend'.req} :
         /\ inflight[r].pc = "idle"
         /\ Len(responses[r]) >= 1]_vars

C4_Witness ==
  \E r1, r2 \in Requests :
    /\ requests[r1].type = "swap" /\ requests[r2].type = "swap"
    /\ requests[r1].data.inviteCode # requests[r2].data.inviteCode
    /\ accepted[r1]["buyer"] >= 1
    /\ r1 \in Ended
    /\ inflight[r2].pc = "wait"

(***************************************************************************)
(* C5  Arrival order.  Tasks are started in the order their requests were  *)
(* pushed (request ids are given in arrival order), the queue holds the    *)
(* pushed requests not yet started in that order, and a task is started    *)
(* only after every task started before it has ended.                      *)
(***************************************************************************)
C5_ArrivalOrder ==
  /\ \A i \in 1..Len(startOrder) :
       Cardinality({r \in Enqueued : r < startOrder[i]}) = i - 1
  /\ \A i \in 1..Len(swapQueue) :
       Cardinality({r \in Enqueued : r < swapQueue[i]}) = Len(startOrder) + i - 1
  /\ \A i \in 1..(Len(startOrder) - 1) : startOrder[i] \in Ended

\* a request arrived after a task ended and before the scheduled callback ran:
\* it started the task at the head of the queue and waits behind it
C5_Witness ==
  /\ immediates >= 1
  /\ isProcessing
  /\ Len(startOrder) >= 2
  /\ Len(swapQueue) >= 1

(***************************************************************************)
(* C6  Nonce monotonicity.  Every transaction handed to the provider       *)
(* carries the value of the nonce counter and raises the counter by        *)
(* exactly one, and the ledger never accepts two submissions that carry    *)
(* the same nonce.                                                         *)
(***************************************************************************)
C6_NonceMonotonic ==
  /\ [][Submits => /\ lastSend'.nonce = currentNonce
                   /\ currentNonce' = currentNonce + 1]_vars
  /\ [](~nonceReused)

(***************************************************************************)
(* C7  Nonce resynchronisation.  After a submission failed (the send was   *)
(* rejected or the wait for the confirmation failed), no transaction is    *)
(* handed to the provider before the nonce counter was set from the        *)
(* ledger's transaction count, also when the query for that count fails.   *)
(***************************************************************************)
C7_NonceResync ==
  [][Submits => ~nonceStale]_vars

(***************************************************************************)
(* C8  Balance gating.  A transfer whose balance read is below the amount  *)
(* required (zero or positive) hands no transaction to the provider: every *)
(* transaction handed over was preceded by a balance read that covers the  *)
(* amount required.                                                        *)
(***************************************************************************)
C8_BalanceGating ==
  [][Submits => lastSend'.available >= lastSend'.required]_vars

(***************************************************************************)
(* C9  Partial-failure resume.  A swap request that is started while the   *)
(* state stored for its key records a buyer transfer that went through and *)
(* a seller transfer that failed does not submit the buyer transfer again  *)
(* and goes on with the seller transfer.                                   *)
(***************************************************************************)
C9_ResumeAtSeller ==
  [][\A r \in Requests :
       (/\ Starts(r)
        /\ requests'[r].type = "swap"
        /\ swapState[requests'[r].data.inviteCode] # 0
        /\ IsRealHash(heap[swapState[requests'[r].data.inviteCode]].buyerTx)
        /\ StartsWithError(heap[swapState[requests'[r].data.inviteCode]].sellerTx))
       => /\ inflight'[r].pc # "idle"
          /\ inflight'[r].step = "seller"
          /\ inflight'[r].state = swapState[requests'[r].data.inviteCode]
          /\ txSeq' = txSeq]_vars

(***************************************************************************)
(* C10  Fee ordering.  A fee transfer is handed to the provider only when  *)
(* the state of the swap records both the buyer transfer and the seller    *)
(* transfer as done, neither of them as failed.                            *)
(***************************************************************************)
C10_FeeAfterPrimaries ==
  [][(Submits /\ lastSend'.step \in {"fee1", "fee2"}) =>
       LET s == heap[lastSend'.state]
       IN /\ Truthy(s.buyerTx) /\ ~StartsWithError(s.buyerTx)
          /\ Truthy(s.sellerTx) /\ ~StartsWithError(s.sellerTx)]_vars

(***************************************************************************)
(* More of what the claims speak of                                        *)
(***************************************************************************)
\* the slot of a state object that records step st
Slot(s, st) ==
  CASE st = "buyer" -> s.buyerTx
    [] st = "seller" -> s.sellerTx
    [] OTHER -> s.feesTx

\* a slot value the orchestration does not attempt again
Terminal(v) == Truthy(v) /\ ~StartsWithError(v)

\* the task of request r returns in this step
TaskEnds(r) == inflight'[r].pc = "idle" /\ (Starts(r) \/ inflight[r].pc # "idle")

\* the task of request r is answered in this step with success:false
AnsweredFailure(r) ==
  /\ Len(responses'[r]) = 1
  /\ responses'[r][1].status = 200
  /\ ~responses'[r][1].success

(***************************************************************************)
(* C11  Waiting for funds.  When the balance read of the buyer or seller   *)
(* transfer is insufficient and nothing is submitted, the execution stops: *)
(* the swap is not marked completed, the step is not recorded as terminal  *)
(* (so a resubmission attempts it again), and the request is answered with *)
(* success:false.                                                          *)
(***************************************************************************)
C11_WaitingForFunds ==
  [][\A r \in Requests :
       (/\ inflight[r].pc = "balance"
        /\ inflight[r].step \in Primary
        /\ inflight'[r] # inflight[r]
        /\ txSeq' = txSeq)
       => /\ ~heap'[inflight[r].state].completed
          /\ ~Terminal(Slot(heap'[inflight[r].state], inflight[r].step))
          /\ TaskEnds(r)
          /\ AnsweredFailure(r)]_vars

(***************************************************************************)
(* C12  Fatal failure.  When the submission of the buyer or seller         *)
(* transfer failed with an error that is not a low-balance error, the      *)
(* execution stops there: no later step is started, the request is         *)
(* answered with success:false, the swap is not marked completed, and the  *)
(* other steps keep what they had recorded.                                *)
(***************************************************************************)
C12_FatalFailureHalts ==
  [][\A r \in Requests :
       (/\ inflight[r].pc = "resync"
        /\ inflight[r].step \in Primary
        /\ ~isLowBalance(inflight[r].err)
        /\ inflight'[r] # inflight[r])
       => /\ TaskEnds(r)
          /\ AnsweredFailure(r)
          /\ ~heap'[inflight[r].state].completed
          /\ \A st \in Primary \ {inflight[r].step} :
               Slot(heap'[inflight[r].state], st) = Slot(heap[inflight[r].state], st)
          /\ heap'[inflight[r].state].feesTx = heap[inflight[r].state].feesTx]_vars

(***************************************************************************)
(* C13  Low-balance chain failures.  When the submission of the buyer or   *)
(* seller transfer failed with a low-balance error (insufficient funds, or *)
(* CALL_EXCEPTION), the step is not recorded as terminal and the swap is   *)
(* not marked completed, so that a later request attempts the step again.  *)
(***************************************************************************)
C13_LowBalanceRetryable ==
  [][\A r \in Requests :
       (/\ inflight[r].pc = "resync"
        /\ inflight[r].step \in Primary
        /\ isLowBalance(inflight[r].err)
        /\ inflight'[r] # inflight[r])
       => /\ ~Terminal(Slot(heap'[inflight[r].state], inflight[r].step))
          /\ ~heap'[inflight[r].state].completed]_vars

(***************************************************************************)
(* C14  Step monotonicity.  Whenever a task is inside a transfer (reading  *)
(* the balance, submitting, waiting for the confirmation or handling the   *)
(* failure), the slot of that step in the state it works on is unset or a  *)
(* failure marker: a step recorded as a transaction hash or as skipped is  *)
(* never attempted again.  The fee transfers are attempted only while the  *)
(* fee slot is unset.                                                      *)
(***************************************************************************)
C14_StepMonotonic ==
  \A r \in Requests :
    inflight[r].pc \in {"balance", "send", "wait", "resync"} =>
      /\ ~Terminal(Slot(heap[inflight[r].state], inflight[r].step))
      /\ inflight[r].step \in {"fee1", "fee2"} => ~Truthy(heap[inflight[r].state].feesTx)

\* a later request for a key whose state records a hash and a skipped marker
\* has run and ended, and the latest submission is still the first request's
C14_Witness ==
  \E o \in Requests, r \in Requests :
    /\ r > o
    /\ r \in Ended
    /\ requests[r].type = "swap"
    /\ requests[r].data.inviteCode = requests[o].data.inviteCode
    /\ swapState[requests[o].data.inviteCode] = o
    /\ IsRealHash(heap[o].buyerTx)
    /\ heap[o].sellerTx = AlreadyDoneOrSkipped
    /\ lastSend.req = o

(***************************************************************************)
(* C15  Completed state is immutable.  While a key names a state object,   *)
(* no step makes the key name another object (the entry can only be        *)
(* removed), and once the object is completed no step changes its          *)
(* buyerTx, sellerTx, feesTx or completed field while the entry is stored. *)
(***************************************************************************)
C15_CompletedImmutable ==
  [][\A k \in Keys :
       swapState[k] # 0 =>
         /\ swapState'[k] \in {swapState[k], 0}
         /\ (heap[swapState[k]].completed /\ swapState'[k] = swapState[k])
              => heap'[swapState[k]] = heap[swapState[k]]]_vars

\* a completed state is stored while a later request for another key has had
\* a transfer accepted
C15_Witness ==
  \E o \in Requests, r \in Requests :
    /\ o < r
    /\ requests[o].type = "swap" /\ requests[r].type = "swap"
    /\ requests[r].data.inviteCode # requests[o].data.inviteCode
    /\ swapState[requests[o].data.inviteCode] = o
    /\ heap[o].completed
    /\ accepted[r]["buyer"] >= 1

(***************************************************************************)
(* C16  Completion requires all steps terminal.  A state object is marked  *)
(* completed only if its buyer, seller and fee slots are all set and none  *)
(* of them is a failure marker.                                            *)
(***************************************************************************)
C16_CompletedAllTerminal ==
  \A o \in Requests :
    heap[o].completed =>
      /\ Terminal(heap[o].buyerTx)
      /\ Terminal(heap[o].sellerTx)
      /\ Terminal(heap[o].feesTx)

\* an exception was thrown inside the task of request r that returns in this
\* step: by a provider call inside transferToken, by the first nonce query, or
\* by the check of the network identifier
Threw(r) ==
  \/ inflight[r].threw
  \/ inflight[r].pc = "nonceSync"
  \/ /\ Starts(r)
     /\ requests'[r].type = "swap"
     /\ requests'[r].data.network \notin RPC_URLS
     /\ ~(/\ swapState[requests'[r].data.inviteCode] # 0
          /\ heap[swapState[requests'[r].data.inviteCode]].completed)

(***************************************************************************)
(* C17  Task exceptions never halt the queue.  When a task returns, the    *)
(* busy flag is cleared, the request has exactly one response, and a       *)
(* callback is scheduled for the next queued task if there is one; and if  *)
(* an exception was thrown inside the task (in the transfer helper         *)
(* included), that response is a failure result (success:false).           *)
(***************************************************************************)
C17_ExceptionsReported ==
  [][\A r \in Requests :
       TaskEnds(r) =>
         /\ isProcessing' = FALSE
         /\ Len(swapQueue') > 0 => immediates' > 0
         /\ Len(responses'[r]) = 1
         /\ Threw(r) => AnsweredFailure(r)]_vars

\* a step of the running task: the completion of the provider call it awaits
TaskStep ==
  \E r \in Requests :
    \/ NonceSyncDone(r)
    \/ BalanceDone(r)
    \/ SendAccepted(r)
    \/ SendRejected(r)
    \/ WaitConfirmed(r)
    \/ WaitFailed(r)
    \/ ResyncDone(r)

(***************************************************************************)
(* C18  Stuck-task release.  The queue never sits behind a task that does  *)
(* not return: whenever the busy flag is set, the running task can still   *)
(* take a step.  (The busy flag is cleared only by the finally block of    *)
(* processQueue; a state in which the flag is set and the provider call    *)
(* the task awaits neither resolves nor rejects is a state in which no     *)
(* queued task is ever started again.)                                     *)
(***************************************************************************)
C18_StuckTaskReleased ==
  isProcessing => ENABLED TaskStep

(***************************************************************************)
(* C19  In-body error reporting.  Every response to a request that passed  *)
(* authentication has HTTP status 200, whatever its outcome; a request     *)
(* that failed authentication is answered 401; and every authenticated     *)
(* request whose task has returned has been answered.                      *)
(***************************************************************************)
C19_InBodyErrors ==
  /\ \A r \in Requests : \A i \in 1..Len(responses[r]) :
       responses[r][i].status = IF requests[r].type = "unauthorized" THEN 401 ELSE 200
  /\ \A r \in Ended : Len(responses[r]) >= 1

\* an unsupported network, a failed transfer and a rejected token have all
\* been answered
C19_Witness ==
  \E r1, r2, r3 \in Requests :
    /\ Len(responses[r1]) = 1 /\ responses[r1][1].code = "SWAP_ERROR_STOP_RETRY"
    /\ Len(responses[r2]) = 1 /\ StartsWithError(responses[r2][1].transactions[1])
    /\ Len(responses[r3]) = 1 /\ responses[r3][1].status = 401

\* a swap request naming a network without RPC endpoint is started in this step
StartsUnsupported(r) ==
  /\ Starts(r)
  /\ requests'[r].type = "swap"
  /\ requests'[r].data.network \notin RPC_URLS

\* the task returns at once, nothing was asked of or sent to a ledger, the
\* nonce counter is as before, and no state object changes its completed flag
NoChainInteraction(r) ==
  /\ TaskEnds(r)
  /\ UNCHANGED <<txSeq, lastSend, currentNonce, chainCount, accepted, usedNonces>>
  /\ \A o \in Requests : heap'[o].completed = heap[o].completed

(***************************************************************************)
(* C20  Unsupported network.  As claimed: a swap request whose network     *)
(* identifier has no configured RPC endpoint is answered with              *)
(* success:false, causes no chain interaction, leaves the nonce counter    *)
(* unchanged and does not mark the swap completed.                         *)
(***************************************************************************)
C20_UnsupportedNetwork ==
  [][\A r \in Requests :
       StartsUnsupported(r) => (AnsweredFailure(r) /\ NoChainInteraction(r))]_vars

(***************************************************************************)
(* C20, amended.  A swap request whose network identifier has no           *)
(* configured RPC endpoint causes no chain interaction, leaves the nonce   *)
(* counter unchanged and does not mark the swap completed; it is answered  *)
(* with success:false unless a completed state is stored for its key, in   *)
(* which case the stored result is replayed.                               *)
(***************************************************************************)
C20_UnsupportedNetworkUnlessReplay ==
  [][\A r \in Requests :
       StartsUnsupported(r) =>
         /\ NoChainInteraction(r)
         /\ Len(responses'[r]) = 1
         /\ LET o == swapState[requests'[r].data.inviteCode]
            IN IF o # 0 /\ heap[o].completed
               THEN responses'[r][1] = ReplayResponse(heap[o])
               ELSE AnsweredFailure(r)]_vars

\* after the nonce counter was set and used, a request naming an unsupported
\* network was answered with a failure
C20_Witness ==
  \E r \in Requests :
    /\ requests[r].type = "swap"
    /\ requests[r].data.network \notin RPC_URLS
    /\ Len(responses[r]) = 1
    /\ responses[r][1].code = "SWAP_ERROR_STOP_RETRY"
    /\ currentNonce > 0
    /\ r \in Ended

(***************************************************************************)
(* C21  Fee determinism: each fee is the floor, in minor units of the       *)
(* token, of the gross amount times half the fee rate in basis points over  *)
(* 10000; each net amount is the gross amount less that fee; net plus fee   *)
(* is the gross amount; and a 10% rate on 100 and 200 gives 95 and 190.     *)
(* The rate is the one the code applies.                                    *)
(***************************************************************************)
C21_FeeDeterminism ==
  calc.fees.done =>
    LET d == calc.data
        f == calc.fees
        FloorFee(amount, percent) ==
          (((amount \div MinorUnit(FALSE)) * (percent * 100)) \div 20000)
            * MinorUnit(FALSE)
    IN /\ f.buyerFeeAmt = FloorFee(d.sellerAmount, f.finalFeePercent)
       /\ f.buyerNet = d.sellerAmount - f.buyerFeeAmt
       /\ f.sellerFeeAmt = FloorFee(d.buyerAmount, f.finalFeePercent)
       /\ f.sellerNet = d.buyerAmount - f.sellerFeeAmt
       /\ f.buyerNet + f.buyerFeeAmt = d.sellerAmount
       /\ f.sellerNet + f.sellerFeeAmt = d.buyerAmount
       /\ (d.feePercent = 10 /\ d.buyerAmount = 100 * Unit
             /\ d.sellerAmount = 200 * Unit)
            => /\ f.buyerNet = 190 * Unit /\ f.buyerFeeAmt = 10 * Unit
               /\ f.sellerNet = 95 * Unit /\ f.sellerFeeAmt = 5 * Unit

(***************************************************************************)
(* C22  Treasury share: a transaction of the fee step goes to the treasury  *)
(* address and carries exactly 70% of the fee of its party, the fee being   *)
(* computed from the gross amounts of the request.                          *)
(***************************************************************************)
C22_TreasuryShare ==
  [][(Submits /\ lastSend'.step \in {"fee1", "fee2"}) =>
       LET d == requests[lastSend'.req].data
           fee == IF lastSend'.step = "fee1" THEN buyerFeeAmt(d) ELSE sellerFeeAmt(d)
       IN /\ lastSend'.to = TREASURY_ADDRESS
          /\ lastSend'.value * 100 = fee * 70]_vars

(***************************************************************************)
(* C23  Out-of-gas gate: a transfer hands a transaction to the provider,    *)
(* and takes a nonce, only when the native balance of the signer is not     *)
(* below the gas reserve.  The only gas amount of the code is gasBuffer;    *)
(* the balance read of a transfer of the native coin is the native balance. *)
(***************************************************************************)
C23_OutOfGasGate ==
  [][(Submits /\ IsNativeForBalance(lastSend'.token)) =>
       lastSend'.available >= GasBuffer]_vars

(***************************************************************************)
(* C24  Bounded retention: an entry of the store is removed when 20 minutes *)
(* have passed since it was made.  Only its purge timer removes an entry,   *)
(* so every entry of the store has a purge timer pending for its key.       *)
(***************************************************************************)
C24_BoundedRetention ==
  \A k \in Keys : swapState[k] # 0 => timers[k] > 0

(***************************************************************************)
(* C25  Wrapped-native substitution: a transfer of an asset whose           *)
(* identifier is, in any letter case, in the wrapped-native set is made as  *)
(* a native send; a transfer of any other contract address is made as a     *)
(* token transfer.  The symbols and the zero address name the native coin   *)
(* itself and are no contract addresses.                                    *)
(***************************************************************************)
C25_WrappedNative ==
  [][Submits =>
       LET t == lastSend'.token
       IN /\ ToLowerCase(t) \in WRAPPED_NATIVE_TOKENS => lastSend'.native
          /\ (/\ StrLength(t) = 42 /\ t # ZeroAddress
              /\ ToLowerCase(t) \notin WRAPPED_NATIVE_TOKENS) => ~lastSend'.native]_vars

C25_Witness ==
  /\ txSeq > 0
  /\ lastSend.token = WETHChecksum
  /\ lastSend.token \notin WRAPPED_NATIVE_TOKENS
  /\ lastSend.native
  /\ accepted[lastSend.state][lastSend.step] > 0

(***************************************************************************)
(* C26  Default fee rate: the total fee rate is 10% when feePercent is      *)
(* absent or not a number, and is the rate of the request, 0 included, in   *)
(* every other case; each party pays half of it.                            *)
(***************************************************************************)
C26_DefaultFeeRate ==
  calc.fees.done =>
    LET d == calc.data
        rate == IF d.feePercent \in {NoFeePercent, InvalidFeePercent}
                THEN 10 ELSE d.feePercent
    IN /\ calc.fees.finalFeePercent = rate
       /\ calc.fees.buyerFeeAmt * 200 = d.sellerAmount * rate
       /\ calc.fees.sellerFeeAmt * 200 = d.buyerAmount * rate

(***************************************************************************)
(* C27  Authentication gate: a request without the bearer token is answered *)
(* 401 and nothing else happens: it is not put in the queue, and the queue, *)
(* the store, the nonce counter, the running task and the ledger are as     *)
(* they were; it is never started later.                                    *)
(***************************************************************************)
C27_AuthenticationGate ==
  [][/\ \A r \in Requests :
          (requests[r].type = "none" /\ requests'[r].type = "unauthorized") =>
            /\ Len(responses'[r]) = 1
            /\ responses'[r][1].status = 401
            /\ UNCHANGED <<swapQueue, isProcessing, currentNonce, swapState, heap,
                           timers, immediates, inflight, chainCount, txSeq,
                           lastSend, accepted, usedNonces, startOrder>>
     /\ \A r \in Requests :
          requests[r].type = "unauthorized" =>
            /\ r \notin Started' \cup {swapQueue'[i] : i \in 1..Len(swapQueue')}
            /\ responses'[r] = responses[r]]_vars

C27_Witness ==
  \E r \in Requests :
    /\ requests[r].type = "unauthorized"
    /\ responses[r] = <<Json(401, FALSE, "", "", NoTransactions)>>
    /\ isProcessing
    /\ Len(swapQueue) > 0
    /\ nextReq > r + 1

(***************************************************************************)
(* The queue by itself: requests arrive, tasks run and fail as above, and   *)
(* no purge timer fires within the run.  The event loop runs every callback *)
(* it has scheduled: a pending setImmediate(processQueue) does run          *)
(* (server.js:556).                                                         *)
(***************************************************************************)
FairNext ==
  \/ SwapRequest
  \/ RefundRequest
  \/ UnauthorizedRequest
  \/ Immediate
  \/ TaskStep

FairSpec == Init /\ [][FairNext]_vars /\ WF_vars(Immediate)

Queued == {swapQueue[i] : i \in 1..Len(swapQueue)}

(***************************************************************************)
(* C28  Queue liveness: if every task that is started returns (the busy     *)
(* flag, set while a task runs, is clear again and again), every task that  *)
(* is put in the queue is started; whenever the queue is not empty and the  *)
(* busy flag is clear a processQueue run is scheduled; and the busy flag is *)
(* clear when a task has ended.                                             *)
(***************************************************************************)
C28_QueueLiveness ==
  /\ []((~isProcessing /\ Len(swapQueue) > 0) => immediates > 0)
  /\ [][\A r \in Requests : TaskEnds(r) => ~isProcessing']_vars
  /\ []<>(~isProcessing)
       => \A r \in Requests : (r \in Queued) ~> (r \in Started)

C28_Witness ==
  /\ Len(startOrder) >= 2
  /\ Ended = Started
  /\ ~isProcessing
  /\ Len(swapQueue) > 0
  /\ immediates > 0

(***************************************************************************)
(* C29  Exactly one response per request: a swap request whose task has     *)
(* returned has been answered once, whichever way the task went, and no     *)
(* swap request is ever answered twice.                                     *)
(***************************************************************************)
C29_ExactlyOneResponse ==
  \A r \in Requests :
    requests[r].type = "swap" =>
      /\ Len(responses[r]) <= 1
      /\ r \in Ended => Len(responses[r]) = 1

C29_Witness ==
  \E r1 \in Ended, r2 \in Ended :
    /\ requests[r1].type = "swap" /\ requests[r2].type = "swap"
    /\ Len(responses[r1]) = 1 /\ Len(responses[r2]) = 1
    /\ responses[r1][1].code = "SWAP_ERROR_STOP_RETRY"
    /\ responses[r2][1].success

(***************************************************************************)
(* C30  Per-network nonce correctness: the nonce of a transaction handed to *)
(* the provider of a network is the transaction count of the signer on that *)
(* network, also when swaps on different networks follow one another; here *)
(* for the runs in which no balance is short and no call to a provider      *)
(* fails.                                                                   *)
(***************************************************************************)
C30_PerNetworkNonce ==
  [][(Submits /\ faults' = 0 /\ rpcFailures' = 0) =>
       lastSend'.nonce = chainCount[lastSend'.network]]_vars

(***************************************************************************)
(* C31  Consistent asset classification: the balance check and the send     *)
(* take the same asset identifiers for the native coin, so the balance      *)
(* read before a transfer is that of the asset the transfer sends.          *)
(***************************************************************************)
C31_ConsistentClassification ==
  calc.fees.done => calc.fees.balanceIsNative = calc.fees.sendIsNative

(***************************************************************************)
(* C32  Submitted amount equals requested amount: the value of every        *)
(* transaction handed to the provider is the amount the transfer was asked  *)
(* for, cut to the decimals of the asset, and is never zero.                *)
(***************************************************************************)
C32_SubmittedIsRequested ==
  [][Submits =>
       /\ lastSend'.value
            = formatAmount(lastSend'.required, MinorUnit(lastSend'.native))
       /\ lastSend'.value > 0]_vars

(***************************************************************************)
(* Server v3.4 (server.js:1-392).  Its queue, its store, its fee            *)
(* calculation and the classification of the asset by transferToken are    *)
(* those of v3.9.  It differs in transferToken, which reads no balance,     *)
(* subtracts no gas buffer and rethrows what the provider throws; in the    *)
(* guards of the steps, which test the slot for truthiness only; and in     *)
(* the catch block, which answers with status 500.                          *)
(***************************************************************************)

\* executeSwapLogic, catch block (server.js:356-359)
SwapCatchV34(W, r) ==
  Finally(Respond(W, r, Json(500, FALSE, "", "", NoTransactions)), r)

\* transferToken from its start to the submission (server.js:234-266): the
\* nonce is taken and incremented when the transaction is handed over
transferTokenV34(W, r, step, tokenAddress, amount) ==
  LET f == W.inflight[r]
      native == IsNativeForSend(tokenAddress)
      value == formatAmount(amount, MinorUnit(native))
      entry == [req |-> r, key |-> f.data.inviteCode, state |-> f.state,
                step |-> step, network |-> f.data.network,
                nonce |-> W.currentNonce, to |-> Recipient(step),
                token |-> tokenAddress, native |-> native, value |-> value,
                required |-> amount, available |-> 0, stale |-> W.nonceStale]
  IN [W EXCEPT !.currentNonce = @ + 1,
               !.txSeq = @ + 1,
               !.lastSend = entry,
               !.inflight[r].pc = "send",
               !.inflight[r].step = step,
               !.inflight[r].tokenAddress = tokenAddress,
               !.inflight[r].amount = amount,
               !.inflight[r].tx = W.txSeq + 1,
               !.inflight[r].nonce = W.currentNonce,
               !.inflight[r].err = NoError]

\* 3. Fees distribution (server.js:320-339), from its end to its start
AfterFee2V34(W, r, tx) ==
  FeesDone([W EXCEPT !.inflight[r].feeTxHash =
                        IF Truthy(tx) /\ StartsWith0x(tx) THEN tx ELSE @], r)

StartFee2V34(W, r) ==
  LET d == W.inflight[r].data
      amt == amountToTreasury(sellerFeeAmt(d))
  IN IF sellerFeeAmt(d) > 0
     THEN IF IsZeroAmount(amt) THEN AfterFee2V34(W, r, SkippedZeroAmount)
          ELSE transferTokenV34(W, r, "fee2", d.buyerToken, amt)
     ELSE FeesDone(W, r)

AfterFee1V34(W, r, tx) ==
  StartFee2V34([W EXCEPT !.inflight[r].feeTxHash =
                            IF Truthy(tx) /\ StartsWith0x(tx) THEN tx ELSE @], r)

StartFeesV34(W, r) ==
  LET f == W.inflight[r]
      d == f.data
      amt == amountToTreasury(buyerFeeAmt(d))
      W1 == [W EXCEPT !.inflight[r].feeTxHash = FeesAccumulated]
  IN IF ~Truthy(W.heap[f.state].feesTx)
     THEN IF buyerFeeAmt(d) > 0
          THEN IF IsZeroAmount(amt) THEN AfterFee1V34(W1, r, SkippedZeroAmount)
               ELSE transferTokenV34(W1, r, "fee1", d.sellerToken, amt)
          ELSE StartFee2V34(W1, r)
     ELSE Complete(W, r)

\* 2. Transfer to seller (server.js:312-318)
AfterSellerV34(W, r, result) ==
  LET f == W.inflight[r]
  IN StartFeesV34([W EXCEPT !.heap[f.state].sellerTx = result,
                            !.swapState[f.data.inviteCode] = f.state], r)

StartSellerV34(W, r) ==
  LET f == W.inflight[r]
      d == f.data
  IN IF ~Truthy(W.heap[f.state].sellerTx)
     THEN IF IsZeroAmount(sellerNet(d)) THEN AfterSellerV34(W, r, SkippedZeroAmount)
          ELSE transferTokenV34(W, r, "seller", d.buyerToken, sellerNet(d))
     ELSE StartFeesV34(W, r)

\* 1. Transfer to buyer (server.js:304-310)
AfterBuyerV34(W, r, result) ==
  LET f == W.inflight[r]
  IN StartSellerV34([W EXCEPT !.heap[f.state].buyerTx = result,
                              !.swapState[f.data.inviteCode] = f.state], r)

\* a mutant: the buyer transfer is made whatever the slot holds
StartBuyerNoGuardV34(W, r) ==
  LET d == W.inflight[r].data
  IN transferTokenV34(W, r, "buyer", d.sellerToken, buyerNet(d))

StartBuyerV34(W, r) ==
  LET f == W.inflight[r]
      d == f.data
  IN IF ~Truthy(W.heap[f.state].buyerTx)
     THEN IF IsZeroAmount(buyerNet(d)) THEN AfterBuyerV34(W, r, SkippedZeroAmount)
          ELSE transferTokenV34(W, r, "buyer", d.sellerToken, buyerNet(d))
     ELSE StartSellerV34(W, r)

\* transferToken returns `result` to the step that called it
TransferReturnV34(W, r, result) ==
  CASE W.inflight[r].step = "buyer" -> AfterBuyerV34(W, r, result)
    [] W.inflight[r].step = "seller" -> AfterSellerV34(W, r, result)
    [] W.inflight[r].step = "fee1" -> AfterFee1V34(W, r, result)
    [] W.inflight[r].step = "fee2" -> AfterFee2V34(W, r, result)

\* tx.wait(1) resolved: return tx.hash (server.js:259-260, 274-275)
TransferAfterWaitV34(W, r) ==
  LET f == W.inflight[r]
  IN TransferReturnV34([W EXCEPT !.chainCount[f.data.network] = @ + 1], r, TxHash(f.tx))

\* transferToken, catch block after the nonce query (server.js:277-282):
\* the error is thrown again, or the nonce query throws, into the catch of
\* executeSwapLogic.  ok = the nonce query succeeded
TransferCatchV34(W, r, ok) ==
  LET f == W.inflight[r]
  IN SwapCatchV34([W EXCEPT !.currentNonce = IF ok THEN W.chainCount[f.data.network] ELSE @,
                            !.nonceStale = IF ok THEN FALSE ELSE @], r)

\* executeSwapLogic from its start to its first await (server.js:154-204)
executeSwapLogicV34(W, r, data) ==
  LET obj == W.swapState[data.inviteCode]
      s == W.heap[obj]
      state == IF obj # 0 THEN obj ELSE r
      W1 == IF obj # 0 THEN W
            ELSE [W EXCEPT !.heap[r] = NewState,
                           !.swapState[data.inviteCode] = r,
                           !.timers[data.inviteCode] = @ + 1]
      W2 == [W1 EXCEPT !.inflight[r] = [IdleFrame EXCEPT !.pc = "start",
                                                        !.data = data,
                                                        !.state = state]]
  IN IF obj # 0 /\ s.completed
     THEN Finally(Respond(W, r, Json(200, TRUE, "Swap already completed", "",
                                     <<s.buyerTx, s.sellerTx, s.feesTx>>)), r)
     ELSE IF data.network \notin RPC_URLS THEN SwapCatchV34(W2, r)
     ELSE IF W2.currentNonce = NoNonce
          THEN [W2 EXCEPT !.inflight[r].pc = "nonceSync"]
          ELSE StartBuyerV34(W2, r)

\* the initial nonce query returned (server.js:203) or threw (to line 356)
AfterNonceSyncV34(W, r, ok) ==
  IF ok
  THEN StartBuyerV34([W EXCEPT !.currentNonce = W.chainCount[W.inflight[r].data.network],
                               !.nonceStale = FALSE], r)
  ELSE SwapCatchV34(W, r)

\* executeRefundLogic (server.js:367-369)
executeRefundLogicV34(W, r, data) ==
  Finally(Respond(W, r, Json(200, TRUE, "Refund processed (placeholder)", "",
                             NoTransactions)), r)

\* processQueue (server.js:127-139) up to the task's first await
processQueueV34(W) ==
  IF W.isProcessing \/ Len(W.swapQueue) = 0 THEN W
  ELSE LET id == Head(W.swapQueue)
           task == W.requests[id]
           W1 == [W EXCEPT !.isProcessing = TRUE,
                           !.swapQueue = Tail(@),
                           !.startOrder = Append(@, id)]
       IN IF task.type = "swap" THEN executeSwapLogicV34(W1, id, task.data)
          ELSE executeRefundLogicV34(W1, id, task.data)

\* the two POST handlers behind authenticate (server.js:379-387)
EnqueueV34(W, r, type, data) ==
  processQueueV34([W EXCEPT !.requests[r] = [type |-> type, data |-> data],
                            !.swapQueue = Append(@, r)])

(***************************************************************************)
(* Actions of v3.4, with the ledger and the budgets of failures above.      *)
(***************************************************************************)
SwapRequestV34 ==
  /\ nextReq <= MaxRequests
  /\ Cardinality({r \in Requests : requests[r].type = "swap"}) < MaxSwaps
  /\ \E k \in Keys, p \in Payloads :
       Becomes(EnqueueV34(World, nextReq, "swap", SwapData(k, p)))
  /\ nextReq' = nextReq + 1
  /\ NoFailure

RefundRequestV34 ==
  /\ nextReq <= MaxRequests
  /\ Becomes(EnqueueV34(World, nextReq, "refund", [NoData EXCEPT !.network = "BSC"]))
  /\ nextReq' = nextReq + 1
  /\ NoFailure

ImmediateV34 ==
  /\ immediates > 0
  /\ Becomes(processQueueV34([World EXCEPT !.immediates = @ - 1]))
  /\ NoFailure
  /\ UNCHANGED nextReq

NonceSyncDoneV34(r) ==
  /\ inflight[r].pc = "nonceSync"
  /\ \E ok \in BOOLEAN :
       /\ RpcFailure(~ok)
       /\ Becomes(AfterNonceSyncV34(World, r, ok))
  /\ UNCHANGED nextReq

SendAcceptedV34(r) ==
  /\ inflight[r].pc = "send"
  /\ inflight[r].nonce >= chainCount[inflight[r].data.network]
  /\ Becomes(TransferAfterSend(World, r))
  /\ NoFailure
  /\ UNCHANGED nextReq

SendRejectedV34(r) ==
  /\ inflight[r].pc = "send"
  /\ Fault(TRUE)
  /\ \E err \in SendErrors : Becomes(TransferSendFailed(World, r, err))
  /\ UNCHANGED nextReq

WaitConfirmedV34(r) ==
  /\ inflight[r].pc = "wait"
  /\ inflight[r].nonce = chainCount[inflight[r].data.network]
  /\ Becomes(TransferAfterWaitV34(World, r))
  /\ NoFailure
  /\ UNCHANGED nextReq

WaitFailedV34(r) ==
  /\ inflight[r].pc = "wait"
  /\ Fault(TRUE)
  /\ \E err \in WaitErrors, mined \in BOOLEAN :
       /\ mined => inflight[r].nonce = chainCount[inflight[r].data.network]
       /\ err.code = "CALL_EXCEPTION" => mined
       /\ Becomes(TransferWaitFailed(World, r, err, mined))
  /\ UNCHANGED nextReq

ResyncDoneV34(r) ==
  /\ inflight[r].pc = "resync"
  /\ \E ok \in BOOLEAN :
       /\ RpcFailure(~ok)
       /\ Becomes(TransferCatchV34(World, r, ok))
  /\ UNCHANGED nextReq

NextV34 ==
  \/ SwapRequestV34
  \/ RefundRequestV34
  \/ ImmediateV34
  \/ \E k \in Keys : PurgeTimer(k)
  \/ \E r \in Requests : NonceSyncDoneV34(r)
  \/ \E r \in Requests : SendAcceptedV34(r)
  \/ \E r \in Requests : SendRejectedV34(r)
  \/ \E r \in Requests : WaitConfirmedV34(r)
  \/ \E r \in Requests : WaitFailedV34(r)
  \/ \E r \in Requests : ResyncDoneV34(r)

SpecV34 == Init /\ [][NextV34]_vars

(***************************************************************************)
(* C33  Fee step across retries: for every key, the ledger accepts the fee  *)
(* transfer in the seller's asset at most once and the fee transfer in the  *)
(* buyer's asset at most once, over all requests for the key; here for the  *)
(* runs in which no purge timer has fired.                                  *)
(***************************************************************************)
C33_FeeAtMostOnce ==
  purges = 0 => \A k \in Keys, st \in {"fee1", "fee2"} : AcceptedForKey(k, st) <= 1

(***************************************************************************)
(* C34  State preserved on failure (v3.4): when a transfer throws, the      *)
(* state object of the task is left as it was: the slots of the steps       *)
(* before the failing one hold what those steps returned, the slot of the   *)
(* failing step and the later slots are null, completed is false, and the   *)
(* request is answered with a failure.  Every transaction a request hands   *)
(* to the provider belongs to a step whose slot is null, all slots before   *)
(* it being filled: buyer, then seller, then fees.                          *)
(***************************************************************************)
C34_StatePreserved ==
  [][/\ \A r \in Requests :
          (inflight[r].pc = "resync" /\ inflight'[r].pc = "idle") =>
            LET o == inflight[r].state
                st == inflight[r].step
            IN /\ heap'[o] = heap[o]
               /\ ~heap'[o].completed
               /\ Slot(heap'[o], st) = Null
               /\ heap'[o].feesTx = Null
               /\ st = "buyer" => heap'[o].sellerTx = Null
               /\ st # "buyer" => Truthy(heap'[o].buyerTx)
               /\ st \in {"fee1", "fee2"} => Truthy(heap'[o].sellerTx)
               /\ Len(responses'[r]) = 1
               /\ ~responses'[r][1].success
     /\ Submits =>
          LET o == lastSend'.state
              st == lastSend'.step
          IN /\ Slot(heap'[o], st) = Null
             /\ st # "buyer" => Truthy(heap'[o].buyerTx)
             /\ st \in {"fee1", "fee2"} => Truthy(heap'[o].sellerTx)]_vars

C34_Witness ==
  \E r1 \in Requests, r2 \in Requests :
    /\ r1 < r2
    /\ requests[r1].type = "swap" /\ requests[r2].type = "swap"
    /\ requests[r1].data.inviteCode = requests[r2].data.inviteCode
    /\ Len(responses[r1]) = 1 /\ responses[r1][1].status = 500
    /\ inflight[r2].pc = "send" /\ inflight[r2].step = "seller"
    /\ inflight[r2].state = r1
    /\ IsRealHash(heap[r1].buyerTx)
    /\ heap[r1].buyerTx.id < inflight[r2].tx
    /\ accepted[r1]["buyer"] = 1

(***************************************************************************)
(* C35  Zero-amount transfers are skipped without side effects: no balance  *)
(* is queried and no transaction is handed to the provider, so no nonce is  *)
(* taken, for an amount that is not positive; and a step whose amount is    *)
(* not positive is recorded with a marker that is not attempted again, the  *)
(* ledger having accepted nothing for it.                                   *)
(***************************************************************************)
C35_ZeroAmountSkipped ==
  [][/\ \A r \in Requests :
          inflight'[r].pc \in {"balance", "send", "wait", "resync"} =>
            inflight'[r].amount > 0
     /\ Submits => lastSend'.required > 0
     /\ \A r \in Requests, st \in Primary :
          LET o == inflight[r].state
              d == inflight[r].data
              amount == IF st = "buyer" THEN buyerNet(d) ELSE sellerNet(d)
          IN (/\ inflight[r].pc # "idle"
              /\ Slot(heap[o], st) = Null
              /\ Slot(heap'[o], st) # Null
              /\ amount <= 0)
               => /\ Slot(heap'[o], st) = AlreadyDoneOrSkipped
                  /\ Terminal(Slot(heap'[o], st))
                  /\ accepted'[o][st] = 0
                  /\ lastSend'.step = st => lastSend' = lastSend]_vars

C35_Witness ==
  \E o \in Requests :
    /\ requests[o].type = "swap"
    /\ sellerNet(requests[o].data) = 0
    /\ heap[o].sellerTx = AlreadyDoneOrSkipped
    /\ IsRealHash(heap[o].buyerTx)
    /\ accepted[o]["seller"] = 0
    /\ heap[o].completed

====
